---- MODULE Spec2Model ----
(***************************************************************************)
(* Azure AI Foundry provisioning and validation scripts.                   *)
(*                                                                         *)
(*  - ValidationResult (validate-ai-foundry-deployment.py): the check      *)
(*    aggregator, its summary and has_critical_issues.                     *)
(*  - main() of create-ai-foundry-project.py: the provisioning run, one    *)
(*    existence check and one create per resource, secrets, role           *)
(*    assignment, deployment summary; runs follow one another against the  *)
(*    same cloud subscription.                                             *)
(*  - main() of validate-ai-foundry-deployment.py: the validation run,     *)
(*    its validators and exit status. One command runs at a time.          *)
(*  - a second provisioning invocation racing the first (SpecRace).        *)
(*  - validate-ai-foundry-deployment.py and validate-keyvault-access.py:   *)
(*    what they show of secret values, and the write test (SpecSecrets).   *)
(***************************************************************************)
EXTENDS Integers, Sequences, FiniteSets, TLC

\* ------------------------------------------------------------------ bounds
MaxChecks == 4
\* provider and secret-store calls that may fail in one run
MaxFaults == 1

\* =========================================================================
\* State
\* =========================================================================
VARIABLES
    \* ValidationResult
    checks,      \* self.checks
    issues,      \* self.issues
    warnings,    \* self.warnings
    successes,   \* self.successes
    calls,       \* history: the status argument of every add_check call
    \* the cloud subscription (the provider's state)
    cloud,       \* resource -> it exists in the subscription
    secrets,     \* names held by the Key Vault secret store
    assignments, \* number of AI Developer assignments of the user at scope
    \* the provisioning run (locals of main)
    pc,          \* position of the current run
    ph,          \* index in Order of the phase at hand
    found,       \* result of the last existence check
    workspace_id,\* TRUE once get_log_analytics_workspace_id returned
    ending,      \* "none" while running, else how main ended
    \* observation of the current run
    outcome,     \* resource -> "None" | "Created" | "AlreadyExists" | "Failed"
    creates,     \* resource -> number of create calls issued
    check_raised,\* resources whose existence check's provider call raised
    check_true,  \* resources whose existence check returned true
    at_start,    \* the cloud as the run found it
    faults,      \* number of provider and secret-store calls that failed
    stored,      \* secret names written by this run, in order
    attempted,   \* secret names whose store this run attempted, in order
    secret_failed,\* credential sources whose retrieval or store failed
    role_outcome,\* "None" | "Assigned" | "AlreadyAssigned" | "Failed"
    role_creates,\* number of role_assignments.create calls issued
    called,      \* a CLI subprocess or SDK call was attempted
    dry_flag,    \* args.dry_run as the run read it
    summary_written, \* ai_foundry_deployment_summary.json written by this run
    \* observation of the previous run
    prev_created,\* the resources it created
    prev_ending, \* how it ended
    prev_role,   \* its role_outcome
    prev_clean,  \* it found nothing, created everything once, nothing failed
    \* the validation run (locals of main of validate-ai-foundry-deployment.py)
    vpc,         \* position of the validation run, "idle" when none runs
    v_exit,      \* its exit status: "none" | "0" | "1"
    user_object_id, \* TRUE once `az ad signed-in-user show` gave an id
    invoked,     \* the validators invoked so far, in order
    returned,    \* validator -> "none" | "True" | "False"
    raised,      \* validators in whose invocation a provider call raised
    readable,    \* the expected secrets whose get_secret did not raise
    report,      \* ai_foundry_validation_report.json: <<>> or <<its content>>
    \* a second provisioning invocation against the same subscription
    pc2,         \* its position, "off" when there is none
    ph2,         \* its index in Order
    found2,      \* the result of its last existence check
    creates2,    \* the resources for which it issued a create call
    role_creates2, \* number of role_assignments.create calls it issued
    \* the Key Vault access command (validate-keyvault-access.py)
    kpc,         \* its position, "off" when it does not run
    secret_value,\* the value the vault holds for the expected secrets
    instrumentation_key, \* the component's instrumentation key
    k_index,     \* index of the expected secret at hand
    shown,       \* what validate_secret last displayed of a value
    key_shown,   \* what the report's details hold of the instrumentation key
    all_secrets_valid, \* the flag of validate_expected_secrets
    test_secret, \* the test secret: "none" | "present" | "deleted"
    delete_requested, \* begin_delete_secret was called for it
    access_result \* what validate_keyvault_access returned: "none" | "True" | "False"

vrVars == <<checks, issues, warnings, successes, calls>>
cloudVars == <<cloud, secrets, assignments>>
runVars == <<pc, ph, found, workspace_id, ending>>
phaseObs == <<outcome, creates, check_raised, check_true>>
lateObs == <<stored, attempted, secret_failed, role_outcome, role_creates, summary_written>>
prevObs == <<at_start, prev_created, prev_ending, prev_role, prev_clean>>
sessObs == <<called, dry_flag>>
obsVars == <<phaseObs, lateObs, prevObs, sessObs, faults>>
valObs == <<raised, readable, report>>
valVars == <<vpc, v_exit, user_object_id, invoked, returned, valObs>>
otherVars == <<pc2, ph2, found2, creates2, role_creates2>>
accessVars == <<kpc, secret_value, instrumentation_key, k_index, shown, key_shown,
                all_secrets_valid, test_secret, delete_requested, access_result>>
sideVars == <<otherVars, accessVars>>
vars == <<vrVars, cloudVars, runVars, obsVars, valVars, sideVars>>

\* =========================================================================
\* ValidationResult
\* =========================================================================
Categories == {"Key Vault"}
CheckNames == {"Existence", "Secret Access"}
\* status is declared str; "INFO" stands for any value outside the enumeration
Statuses == {"PASS", "FAIL", "WARN", "INFO"}

RECURSIVE GCD(_, _)
GCD(a, b) == IF b = 0 THEN a ELSE GCD(b, a % b)

\* an exact fraction n/d in lowest terms, d > 0
Fraction(n, d) == LET g == GCD(n, d) IN <<n \div g, d \div g>>

\* `details or {}`: a details payload is a set of <<key, list>> pairs
NoDetails == {}

\* the ValidationResult object as a value
EmptyResult ==
    [checks |-> <<>>, issues |-> <<>>, warnings |-> <<>>, successes |-> <<>>,
     calls |-> <<>>]

Result ==
    [checks |-> checks, issues |-> issues, warnings |-> warnings,
     successes |-> successes, calls |-> calls]

\* ValidationResult.add_check applied to the object vr: the object after the
\* call
recorded(vr, category, name, status, details) ==
    LET check == [category |-> category, name |-> name, status |-> status,
                  details |-> details, timestamp |-> Len(vr.checks) + 1]
    IN [checks |-> Append(vr.checks, check),
        successes |-> IF status = "PASS" THEN Append(vr.successes, check)
                      ELSE vr.successes,
        issues |-> IF status = "FAIL" THEN Append(vr.issues, check) ELSE vr.issues,
        warnings |-> IF status = "WARN" THEN Append(vr.warnings, check)
                     ELSE vr.warnings,
        calls |-> Append(vr.calls, status)]

\* the object becomes vr
SetResult(vr) ==
    /\ checks' = vr.checks
    /\ issues' = vr.issues
    /\ warnings' = vr.warnings
    /\ successes' = vr.successes
    /\ calls' = vr.calls

\* ValidationResult.add_check
add_check_no_warn_bucket(category, name, status) ==
    LET check == [category |-> category, name |-> name, status |-> status,
                  details |-> NoDetails, timestamp |-> Len(checks) + 1]
    IN /\ checks' = Append(checks, check)
       /\ successes' = IF status = "PASS" THEN Append(successes, check) ELSE successes
       /\ issues' = IF status \in {"FAIL", "WARN"} THEN Append(issues, check) ELSE issues
       /\ warnings' = warnings
       /\ calls' = Append(calls, status)

add_check(category, name, status) ==
    LET check == [category |-> category, name |-> name, status |-> status,
                  details |-> NoDetails, timestamp |-> Len(checks) + 1]
    IN /\ checks' = Append(checks, check)
       /\ successes' = IF status = "PASS" THEN Append(successes, check) ELSE successes
       /\ issues' = IF status = "FAIL" THEN Append(issues, check) ELSE issues
       /\ warnings' = IF status = "WARN" THEN Append(warnings, check) ELSE warnings
       /\ calls' = Append(calls, status)

\* ValidationResult.get_summary; success_rate is the exact value of
\* len(successes) / len(checks) * 100
get_summary_truncating ==
    [total_checks |-> Len(checks),
     passed |-> Len(successes),
     failed |-> Len(issues),
     warnings |-> Len(warnings),
     success_rate |-> IF Len(checks) > 0
                      THEN <<(Len(successes) * 100) \div Len(checks), 1>>
                      ELSE <<0, 1>>]

get_summary ==
    [total_checks |-> Len(checks),
     passed |-> Len(successes),
     failed |-> Len(issues),
     warnings |-> Len(warnings),
     success_rate |-> IF Len(checks) > 0
                      THEN Fraction(Len(successes) * 100, Len(checks))
                      ELSE <<0, 1>>]

\* ValidationResult.has_critical_issues
has_critical_issues_any_bucket == Len(issues) + Len(warnings) > 0

has_critical_issues == Len(issues) > 0

\* a caller of the aggregator
AddCheck ==
    /\ Len(checks) < MaxChecks
    /\ \E c \in Categories, n \in CheckNames, s \in Statuses : add_check(c, n, s)
    /\ UNCHANGED <<sideVars, cloudVars, runVars, obsVars, valVars>>

\* =========================================================================
\* The provisioning run: main() of create-ai-foundry-project.py
\* =========================================================================
\* the order in which main() takes the resources
Order == <<"rg", "kv", "ai", "acr", "st", "law", "appi", "search">>
Resources == {Order[i] : i \in 1..Len(Order)}
Kinds == Resources \ {"rg"}
NoneYet == [r \in Resources |-> "None"]
Zero == [r \in Resources |-> 0]

\* the secrets main() stores, by credential source, in the order written
SecretsOf_other_names(src) ==
    IF src = "ai" THEN <<"ai-key", "ai-endpoint">>
    ELSE <<"cognitive-search-key", "cognitive-search-endpoint">>

SecretsOf(src) ==
    IF src = "ai" THEN <<"ai-services-key", "ai-services-endpoint">>
    ELSE <<"cognitive-search-key", "cognitive-search-endpoint">>

Range(seq) == {seq[i] : i \in 1..Len(seq)}

\* every secret name main() writes in phase 9
provisioned_secrets == Range(SecretsOf("ai")) \cup Range(SecretsOf("search"))

\* expected_secrets of validate_key_vault (validate-ai-foundry-deployment.py)
expected_secrets == <<"ai-services-key", "ai-services-endpoint">>
kv_expected_secrets == Range(expected_secrets)

\* expected_secrets of validate_expected_secrets (validate-keyvault-access.py)
access_expected_secrets ==
    {"ai-services-key", "ai-services-endpoint", "cognitive-search-admin-key",
     "cognitive-search-query-key", "cognitive-search-endpoint",
     "speechtotext-endpoint", "texttospeech-endpoint", "translator-endpoint"}

\* expected_secrets of check_key_vault_secrets (quick-resource-check.py)
quick_expected_secrets ==
    {"ai-services-key", "ai-services-endpoint", "cognitive-search-admin-key",
     "cognitive-search-query-key", "cognitive-search-endpoint",
     "speechtotext-endpoint", "texttospeech-endpoint", "translator-endpoint"}

\* the process exit status of an ended run ("killed": ended by a signal)
ExitStatus(e) ==
    CASE e \in {"env_exit", "profile_failed", "failed"} -> "1"
      [] e \in {"dry_run", "cli_return", "rg_return", "completed"} -> "0"
      [] e = "killed" -> "killed"
      [] OTHER -> "none"

\* X_exists(client, rg, name): try the get; any exception means "does not exist"
resource_exists_never(r, raises) == FALSE

resource_exists_always(r, raises) == TRUE

resource_exists_raise_is_true(r, raises) == IF raises THEN TRUE ELSE cloud[r]

resource_exists(r, raises) == IF raises THEN FALSE ELSE cloud[r]

\* `if not X_exists(...)`: the create branch is taken
create_branch_always(f) == TRUE

create_branch_never(f) == FALSE

create_branch(f) == ~f

\* where main() goes after a phase that went through
after_phase_skip_wsid(i) ==
    [pc |-> IF i = Len(Order) THEN "secrets_ai" ELSE "check",
     ph |-> IF i = Len(Order) THEN i ELSE i + 1,
     ending |-> "none"]

after_phase(i) ==
    [pc |-> IF i = Len(Order) THEN "secrets_ai"
            ELSE IF Order[i] = "law" THEN "wsid" ELSE "check",
     ph |-> IF i = Len(Order) THEN i ELSE i + 1,
     ending |-> "none"]

\* where main() goes when a create call or its wait raises: the resource
\* group's handler returns; nothing catches it in a phase, and the outer
\* handler logs and calls exit(1)
after_failed_create_continue(i) == after_phase(i)

after_failed_create(i) ==
    IF Order[i] = "rg"
    THEN [pc |-> "end", ph |-> i, ending |-> "rg_return"]
    ELSE [pc |-> "end", ph |-> i, ending |-> "failed"]

\* the except clause of a credential block: warn, go on with the next block
after_credentials_abort(src, failed) ==
    IF failed THEN "end" ELSE IF src = "ai" THEN "secrets_search" ELSE "role_list"

after_credentials(src, failed) == IF src = "ai" THEN "secrets_search" ELSE "role_list"

\* `if args.dry_run:` the preview is logged and main returns
after_dry_run_test_ignored(dry) == [pc |-> "cli", ending |-> "none"]

after_dry_run_test(dry) ==
    IF dry THEN [pc |-> "end", ending |-> "dry_run"]
    ELSE [pc |-> "cli", ending |-> "none"]

\* the role assignments at the resource group's scope, as list_for_scope
\* returns them: the k-th assignment of the AI Developer role to the current
\* user, and assignments of others that are always there. A
\* role_definition_id is the sequence of its path segments
ai_developer_role_id == "64702f94-c441-49e6-a78b-ef80e0188fee"
current_user_object_id == "user"

other_assignments ==
    {[name |-> 0, principal_id |-> "owner",
      role_definition_id |-> <<"roleDefinitions", ai_developer_role_id>>],
     [name |-> 0, principal_id |-> current_user_object_id,
      role_definition_id |-> <<"roleDefinitions", "reader">>]}

list_for_scope ==
    other_assignments \cup
    {[name |-> k, principal_id |-> current_user_object_id,
      role_definition_id |-> <<"roleDefinitions", ai_developer_role_id>>]
       : k \in 1..assignments}

\* str.endswith on the path: the last segment is the suffix
endswith(path, suffix) == Len(path) > 0 /\ path[Len(path)] = suffix

\* `any(principal_id == user and role_definition_id.endswith(role) ...)`
ai_developer_assigned_never(existing) == FALSE

ai_developer_assigned(existing) ==
    \E a \in existing :
       /\ a.principal_id = current_user_object_id
       /\ endswith(a.role_definition_id, ai_developer_role_id)

\* the validators of the validation run, in the order main() invokes them
Validators == <<"rg", "kv", "ai", "acr", "st", "law", "appi", "rbac">>
NotInvoked == [v \in Range(Validators) |-> "none"]

\* load_dotenv, parse_args, validate_environment_variables
ValidateEnvironment ==
    /\ pc = "env"
    /\ \E env_ok \in BOOLEAN :
         IF env_ok
         THEN pc' = "dry_run" /\ ending' = ending
         ELSE pc' = "end" /\ ending' = "env_exit"
    /\ UNCHANGED <<sideVars, vrVars, valVars, cloudVars, ph, found, workspace_id, obsVars>>

\* `if args.dry_run:` print the plan and return
DryRun ==
    /\ pc = "dry_run"
    /\ \E dry \in BOOLEAN :
         /\ dry_flag' = dry
         /\ pc' = after_dry_run_test(dry).pc
         /\ ending' = after_dry_run_test(dry).ending
    /\ UNCHANGED <<sideVars, vrVars, valVars, cloudVars, ph, found, workspace_id, phaseObs, lateObs,
                   prevObs, called, faults>>

\* the blocking calls of a run and whether the call is given a timeout:
\* subprocess.run(..., timeout=30), operation.result(timeout=...)
BlockingCalls ==
    {"az --version", "az account show", "az account show (profile)",
     "az ad signed-in-user show", "az account show (tenantId)",
     "az provider register", "operation.result"}
has_timeout(call) == call \in BlockingCalls \ {"az account show (tenantId)"}

\* what a blocking call does when the external operation never completes
never_completes(call) == IF has_timeout(call) THEN "raises" ELSE "hangs"

\* validate_azure_cli, get_azure_profile, get_current_user_object_id,
\* get_current_user_tenant_id, register_azure_providers, the clients.
\* tenant_answers: the `az account show` of get_current_user_tenant_id
\* completes
AzureSession ==
    /\ pc = "cli"
    /\ \E cli_ok \in BOOLEAN, profile_ok \in BOOLEAN, tenant_answers \in BOOLEAN :
         IF ~cli_ok
         THEN pc' = "end" /\ ending' = "cli_return"
         ELSE IF ~profile_ok
         THEN pc' = "end" /\ ending' = "profile_failed"
         ELSE IF ~tenant_answers
         THEN IF never_completes("az account show (tenantId)") = "hangs"
              THEN pc' = "hung" /\ ending' = ending
              ELSE pc' = "end" /\ ending' = "profile_failed"
         ELSE pc' = "check" /\ ending' = ending
    /\ ph' = 1
    /\ called' = TRUE
    /\ UNCHANGED <<sideVars, vrVars, valVars, cloudVars, found, workspace_id, phaseObs, lateObs, prevObs,
                   dry_flag, faults>>

\* the existence check that opens a phase
ExistenceCheck ==
    /\ pc = "check"
    /\ \E raises \in {FALSE} \cup {x \in {TRUE} : faults < MaxFaults} :
         LET r == Order[ph]
         IN /\ found' = resource_exists(r, raises)
            /\ check_raised' = IF raises THEN check_raised \cup {r} ELSE check_raised
            /\ check_true' = IF resource_exists(r, raises) THEN check_true \cup {r}
                              ELSE check_true
            /\ faults' = IF raises THEN faults + 1 ELSE faults
    /\ pc' = "create"
    /\ UNCHANGED <<sideVars, vrVars, valVars, cloudVars, ph, workspace_id, ending, outcome, creates,
                   lateObs, prevObs, sessObs>>

\* the rest of a phase: create and wait, or log "already exists"
CreateOrAccept ==
    /\ pc = "create"
    /\ LET r == Order[ph]
       IN IF create_branch(found)
          THEN \E ok \in {TRUE} \cup {x \in {FALSE} : faults < MaxFaults},
                  landed \in BOOLEAN :
                 \* a failed or timed out create may still have taken effect
                 /\ ok => landed
                 /\ creates' = [creates EXCEPT ![r] = @ + 1]
                 /\ cloud' = IF landed THEN [cloud EXCEPT ![r] = TRUE] ELSE cloud
                 /\ outcome' = [outcome EXCEPT ![r] = IF ok THEN "Created" ELSE "Failed"]
                 /\ faults' = IF ok THEN faults ELSE faults + 1
                 /\ LET nxt == IF ok THEN after_phase(ph) ELSE after_failed_create(ph)
                    IN pc' = nxt.pc /\ ph' = nxt.ph /\ ending' = nxt.ending
          ELSE /\ outcome' = [outcome EXCEPT ![r] = "AlreadyExists"]
               /\ LET nxt == after_phase(ph)
                  IN pc' = nxt.pc /\ ph' = nxt.ph /\ ending' = nxt.ending
               /\ UNCHANGED <<cloud, creates, faults>>
    /\ UNCHANGED <<sideVars, vrVars, valVars, secrets, assignments, found, workspace_id, check_raised,
                   check_true, lateObs, prevObs, sessObs>>

\* get_log_analytics_workspace_id: logs and re-raises
GetWorkspaceId ==
    /\ pc = "wsid"
    /\ \E raises \in {FALSE} \cup {x \in {TRUE} : faults < MaxFaults} :
         IF raises \/ ~cloud["law"]
         THEN /\ pc' = "end" /\ ending' = "failed"
              /\ faults' = IF raises THEN faults + 1 ELSE faults
              /\ UNCHANGED workspace_id
         ELSE /\ pc' = "check" /\ ending' = ending
              /\ workspace_id' = TRUE
              /\ UNCHANGED faults
    /\ UNCHANGED <<sideVars, vrVars, valVars, cloudVars, ph, found, phaseObs, lateObs, prevObs, sessObs>>

\* the body of a credential block: get_X_endpoint_and_key, then
\* store_secret_in_keyvault of the key, then of the endpoint; each raises on
\* failure and the first exception leaves the block. fail_at names the call
\* that raises: 1 the retrieval, 2 the key's store, 3 the endpoint's. The
\* retrieval also fails when the source is absent, a store when the vault is
\* absent
credential_block_goes_on(src, fail_at) ==
    LET names == SecretsOf(src)
        retrieved == cloud[src] /\ fail_at # 1
        key_ok == retrieved /\ cloud["kv"] /\ fail_at # 2
        endpoint_ok == retrieved /\ cloud["kv"] /\ fail_at # 3
    IN [attempted |-> IF retrieved THEN names ELSE <<>>,
        written |-> (IF key_ok THEN <<names[1]>> ELSE <<>>)
                    \o (IF endpoint_ok THEN <<names[2]>> ELSE <<>>)]

credential_block(src, fail_at) ==
    LET names == SecretsOf(src)
        retrieved == cloud[src] /\ fail_at # 1
        key_ok == retrieved /\ cloud["kv"] /\ fail_at # 2
        endpoint_ok == key_ok /\ fail_at # 3
    IN [attempted |-> IF ~retrieved THEN <<>>
                      ELSE IF ~key_ok THEN <<names[1]>> ELSE names,
        written |-> IF ~key_ok THEN <<>>
                    ELSE IF ~endpoint_ok THEN <<names[1]>> ELSE names]

\* one credential block of phase 9 with its except clause
Credentials(src) ==
    /\ pc = IF src = "ai" THEN "secrets_ai" ELSE "secrets_search"
    /\ \E fail_at \in {0} \cup {x \in 1..3 : faults < MaxFaults} :
         LET block == credential_block(src, fail_at)
             written == block.written
             failed == Len(written) < 2
             nxt == after_credentials(src, failed)
         IN /\ secrets' = secrets \cup Range(written)
            /\ stored' = stored \o written
            /\ attempted' = attempted \o block.attempted
            /\ secret_failed' = IF failed THEN secret_failed \cup {src} ELSE secret_failed
            /\ faults' = IF fail_at > 0 THEN faults + 1 ELSE faults
            /\ pc' = nxt
            /\ ending' = IF nxt = "end" THEN "failed" ELSE ending
    /\ UNCHANGED <<sideVars, vrVars, valVars, cloud, assignments, ph, found, workspace_id, phaseObs,
                   role_outcome, role_creates, summary_written, prevObs, sessObs>>

CredentialsAI == Credentials("ai")

CredentialsSearch == Credentials("search")

\* phase 10: list the assignments at the scope and look for a match
RoleList ==
    /\ pc = "role_list"
    /\ \E list_ok \in {TRUE} \cup {x \in {FALSE} : faults < MaxFaults} :
         IF list_ok
         THEN /\ found' = ai_developer_assigned(list_for_scope)
              /\ pc' = "role_create"
              /\ UNCHANGED <<role_outcome, faults>>
         ELSE /\ role_outcome' = "Failed"
              /\ faults' = faults + 1
              /\ pc' = "summary"
              /\ UNCHANGED found
    /\ UNCHANGED <<sideVars, vrVars, valVars, cloudVars, ph, workspace_id, ending, phaseObs, stored,
                   attempted,
                   secret_failed, role_creates, summary_written, prevObs, sessObs>>

\* phase 10: create the assignment unless one matched
RoleAssign ==
    /\ pc = "role_create"
    /\ IF ~found
       THEN \E ok \in {TRUE} \cup {x \in {FALSE} : faults < MaxFaults} :
              /\ assignments' = IF ok THEN assignments + 1 ELSE assignments
              /\ role_creates' = role_creates + 1
              /\ role_outcome' = IF ok THEN "Assigned" ELSE "Failed"
              /\ faults' = IF ok THEN faults ELSE faults + 1
       ELSE /\ role_outcome' = "AlreadyAssigned"
            /\ UNCHANGED <<assignments, role_creates, faults>>
    /\ pc' = "summary"
    /\ UNCHANGED <<sideVars, vrVars, valVars, cloud, secrets, ph, found, workspace_id, ending, phaseObs,
                   stored, attempted, secret_failed, summary_written, prevObs, sessObs>>

\* the completion message and ai_foundry_deployment_summary.json
WriteSummary ==
    /\ pc = "summary"
    /\ summary_written' = TRUE
    /\ pc' = "end"
    /\ ending' = "completed"
    /\ UNCHANGED <<sideVars, vrVars, valVars, cloudVars, ph, found, workspace_id, phaseObs, stored,
                   attempted,
                   secret_failed, role_outcome, role_creates, prevObs, sessObs, faults>>

\* the process is interrupted; nothing is rolled back
Interrupt ==
    /\ pc \notin {"end", "idle"}
    /\ pc' = "end"
    /\ ending' = "killed"
    /\ UNCHANGED <<sideVars, vrVars, valVars, cloudVars, ph, found, workspace_id, obsVars>>

\* the run at hand found an empty subscription, created every resource with
\* one create, stored every secret, assigned the role, and no call failed
clean_run ==
    /\ ending = "completed"
    /\ faults = 0
    /\ \A r \in Resources : ~at_start[r] /\ outcome[r] = "Created" /\ creates[r] = 1
    /\ Len(stored) = 4
    /\ role_outcome = "Assigned"

\* the script is started again against the same subscription
StartRun ==
    /\ pc \in {"end", "idle"}
    /\ vpc \in {"idle", "end"}
    /\ pc' = "env"
    /\ ph' = 1
    /\ found' = FALSE
    /\ workspace_id' = FALSE
    /\ ending' = "none"
    /\ prev_created' = {r \in Resources : outcome[r] = "Created"}
    /\ prev_ending' = ending
    /\ prev_role' = role_outcome
    /\ prev_clean' = FALSE
    /\ role_creates' = 0
    /\ called' = FALSE
    /\ dry_flag' = FALSE
    /\ outcome' = NoneYet
    /\ creates' = Zero
    /\ check_raised' = {}
    /\ check_true' = {}
    /\ at_start' = cloud
    /\ faults' = 0
    /\ stored' = <<>>
    /\ attempted' = <<>>
    /\ secret_failed' = {}
    /\ role_outcome' = "None"
    /\ summary_written' = FALSE
    /\ SetResult(EmptyResult)
    /\ vpc' = "idle" /\ v_exit' = "none" /\ user_object_id' = FALSE
    /\ invoked' = <<>> /\ returned' = NotInvoked
    /\ raised' = {} /\ readable' = {} /\ report' = <<>>
    /\ UNCHANGED <<cloudVars, sideVars>>

\* =========================================================================
\* The validation run: main() of validate-ai-foundry-deployment.py
\* =========================================================================
\* the category under which a validator records its checks
Category(v) ==
    CASE v = "rg" -> "Resource Group"
      [] v = "kv" -> "Key Vault"
      [] v = "ai" -> "AI Services"
      [] v = "acr" -> "Container Registry"
      [] v = "st" -> "Storage Account"
      [] v = "law" -> "Log Analytics"
      [] v = "appi" -> "Application Insights"
      [] v = "rbac" -> "RBAC"

\* the elements of seq that are in S, in the order of seq
Select(seq, S) == SelectSeq(seq, LAMBDA x : x \in S)

\* the properties of the resource that the Existence PASS check carries
Properties(v) == {<<"name", <<v>>>>}

\* the try block up to the Existence check, and the outer except clause, of a
\* resource validator: [vr, ret] after the get call
existence(vr, v, get_ok) ==
    IF get_ok
    THEN [vr |-> recorded(vr, Category(v), "Existence", "PASS", Properties(v)),
          ret |-> TRUE]
    ELSE [vr |-> recorded(vr, Category(v), "Existence", "FAIL", NoDetails),
          ret |-> FALSE]

\* a sub-check recorded after the Existence PASS; status "none": no check
sub_check_without_inner_try(r, v, name, status, details) ==
    IF r.ret /\ status \in {"FAIL", "WARN"}
    THEN [vr |-> recorded(r.vr, Category(v), "Existence", "FAIL", NoDetails),
          ret |-> FALSE]
    ELSE IF r.ret /\ status # "none"
    THEN [vr |-> recorded(r.vr, Category(v), name, status, details), ret |-> r.ret]
    ELSE r

sub_check(r, v, name, status, details) ==
    IF r.ret /\ status # "none"
    THEN [vr |-> recorded(r.vr, Category(v), name, status, details), ret |-> r.ret]
    ELSE r

validate_resource_group(vr, get_ok) == existence(vr, "rg", get_ok)

\* validate_key_vault: the status of the Secret Access check
secret_access_status_fail_on_partial(found_secrets) ==
    IF found_secrets # <<>>
    THEN IF Len(found_secrets) = Len(expected_secrets) THEN "PASS" ELSE "FAIL"
    ELSE "FAIL"

secret_access_status(found_secrets) ==
    IF found_secrets # <<>>
    THEN IF Len(found_secrets) = Len(expected_secrets) THEN "PASS" ELSE "WARN"
    ELSE "FAIL"

\* validate_key_vault; gettable: the names whose get_secret does not raise
validate_key_vault(vr, get_ok, gettable) ==
    LET found_secrets == Select(expected_secrets, gettable)
        missing_secrets == Select(expected_secrets, kv_expected_secrets \ gettable)
    IN sub_check(existence(vr, "kv", get_ok), "kv", "Secret Access",
                 secret_access_status(found_secrets),
                 IF found_secrets # <<>>
                 THEN {<<"found_secrets", found_secrets>>,
                       <<"missing_secrets", missing_secrets>>}
                 ELSE NoDetails)

\* validate_ai_services; keys: list_keys gave key1 ("ok"), gave none
\* ("empty") or raised ("raise")
validate_ai_services(vr, get_ok, keys) ==
    sub_check(existence(vr, "ai", get_ok), "ai", "API Key Access",
              IF keys = "ok" THEN "PASS" ELSE "FAIL", NoDetails)

\* validate_container_registry; credentials: list_credentials gave a
\* username ("ok"), gave none ("empty") or raised ("raise")
validate_container_registry(vr, get_ok, admin_user_enabled, credentials) ==
    sub_check(existence(vr, "acr", get_ok), "acr", "Admin Credentials",
              IF ~admin_user_enabled \/ credentials = "empty" THEN "none"
              ELSE IF credentials = "ok" THEN "PASS" ELSE "WARN",
              NoDetails)

\* validate_storage_account
validate_storage_account(vr, get_ok, keys) ==
    sub_check(existence(vr, "st", get_ok), "st", "Access Keys",
              IF keys = "ok" THEN "PASS" ELSE "FAIL", NoDetails)

validate_log_analytics(vr, get_ok) == existence(vr, "law", get_ok)

validate_application_insights(vr, get_ok) == existence(vr, "appi", get_ok)

\* validate_rbac_permissions: the user's assignments, then any(...endswith)
user_assignments(existing) ==
    {a \in existing : a.principal_id = current_user_object_id}

validate_rbac_permissions(vr, list_ok, existing) ==
    IF list_ok
    THEN LET role == IF \E a \in user_assignments(existing) :
                           endswith(a.role_definition_id, ai_developer_role_id)
                     THEN "PASS" ELSE "WARN"
             vr1 == recorded(vr, "RBAC", "AI Developer Role", role, NoDetails)
         IN [vr |-> recorded(vr1, "RBAC", "Role Assignments", "PASS",
                             {<<"assignment_count",
                                <<ToString(Cardinality(user_assignments(existing)))>>>>}),
             ret |-> TRUE]
    ELSE [vr |-> recorded(vr, "RBAC", "Permissions Check", "FAIL", NoDetails),
          ret |-> FALSE]

\* where main() goes after a validator returned, whatever it returned
after_validator_stop_on_false(v, ret, uid) ==
    IF ~ret THEN "report"
    ELSE IF v = "appi" THEN IF uid THEN "rbac" ELSE "report"
    ELSE IF v = "rbac" THEN "report"
    ELSE CHOOSE w \in Range(Validators) :
            \E i \in 1..(Len(Validators) - 1) : Validators[i] = v /\ Validators[i + 1] = w

after_validator(v, ret, uid) ==
    IF v = "appi" THEN IF uid THEN "rbac" ELSE "report"
    ELSE IF v = "rbac" THEN "report"
    ELSE CHOOSE w \in Range(Validators) :
            \E i \in 1..(Len(Validators) - 1) : Validators[i] = v /\ Validators[i + 1] = w

\* the provider calls that may fail with cost failures left in this run
CanFail(cost) == faults + cost <= MaxFaults
Cost(b) == IF b THEN 1 ELSE 0

\* a validator was invoked and returned r, cost of its calls having failed;
\* threw: one of its provider calls raised
Invoke(v, r, cost, threw) ==
    /\ SetResult(r.vr)
    /\ raised' = IF threw THEN raised \cup {v} ELSE raised
    /\ returned' = [returned EXCEPT ![v] = IF r.ret THEN "True" ELSE "False"]
    /\ invoked' = Append(invoked, v)
    /\ faults' = faults + cost
    /\ vpc' = after_validator(v, r.ret, user_object_id)
    /\ UNCHANGED <<sideVars, cloudVars, runVars, phaseObs, lateObs, prevObs, sessObs, v_exit,
                   user_object_id>>

\* the validation command is started: a new process, a new ValidationResult
StartValidation ==
    /\ pc \in {"end", "idle"}
    /\ vpc \in {"idle", "end"}
    /\ vpc' = "env" /\ v_exit' = "none" /\ user_object_id' = FALSE
    /\ invoked' = <<>> /\ returned' = NotInvoked
    /\ raised' = {} /\ readable' = {} /\ report' = <<>>
    /\ SetResult(EmptyResult)
    /\ pc' = "idle" /\ ph' = 1 /\ found' = FALSE /\ workspace_id' = FALSE
    /\ ending' = "none"
    /\ outcome' = NoneYet /\ creates' = Zero /\ check_raised' = {} /\ check_true' = {}
    /\ at_start' = cloud
    /\ faults' = 0
    /\ stored' = <<>> /\ attempted' = <<>> /\ secret_failed' = {}
    /\ role_outcome' = "None"
    /\ role_creates' = 0 /\ summary_written' = FALSE
    /\ called' = FALSE /\ dry_flag' = FALSE
    /\ prev_created' = {} /\ prev_ending' = ending /\ prev_role' = "None"
    /\ prev_clean' = clean_run
    /\ UNCHANGED <<cloudVars, sideVars>>

\* validate_environment_variables(result); missing: some required variable
\* is unset or empty. ret: the returned dict is not empty
validate_environment_variables(vr, missing) ==
    IF missing
    THEN [vr |-> recorded(vr, "Environment", "Required Variables", "FAIL",
                          {<<"missing_variables", <<"some">>>>}),
          ret |-> FALSE]
    ELSE [vr |-> recorded(vr, "Environment", "Required Variables", "PASS",
                          {<<"variables", <<"all">>>>}),
          ret |-> TRUE]

\* where main() goes after validate_environment_variables
after_environment_check_continue(ok) == [vpc |-> "cli", v_exit |-> "none"]

after_environment_check(ok) ==
    IF ok THEN [vpc |-> "cli", v_exit |-> "none"]
    ELSE [vpc |-> "end", v_exit |-> "1"]

\* Step 1: validate_environment_variables(result); on failure the report is
\* printed and sys.exit(1)
VEnvironment ==
    /\ vpc = "env"
    /\ \E missing \in BOOLEAN :
         LET r == validate_environment_variables(Result, missing)
         IN /\ SetResult(r.vr)
            /\ vpc' = after_environment_check(r.ret).vpc
            /\ v_exit' = after_environment_check(r.ret).v_exit
    /\ UNCHANGED <<sideVars, cloudVars, runVars, obsVars, user_object_id, invoked, returned,
                   valObs>>

\* validate_azure_cli(result): `az --version`, then `az account show`
validate_azure_cli(vr, version_ok, account_ok) ==
    IF ~version_ok
    THEN [vr |-> recorded(vr, "Azure CLI", "Authentication", "FAIL", NoDetails),
          ret |-> FALSE]
    ELSE LET vr1 == recorded(vr, "Azure CLI", "Installation", "PASS", NoDetails)
         IN IF account_ok
            THEN [vr |-> recorded(vr1, "Azure CLI", "Authentication", "PASS",
                                  {<<"subscription_id", <<"sub">>>>}),
                  ret |-> TRUE]
            ELSE [vr |-> recorded(vr1, "Azure CLI", "Authentication", "FAIL",
                                  NoDetails),
                  ret |-> FALSE]

\* where main() goes after validate_azure_cli
after_cli_check(ok) ==
    IF ok THEN [vpc |-> "user", v_exit |-> "none"]
    ELSE [vpc |-> "end", v_exit |-> "1"]

\* Step 2: validate_azure_cli; on failure the report is printed and
\* sys.exit(1); on success the clients are constructed
VAzureCli ==
    /\ vpc = "cli"
    /\ \E version_ok \in BOOLEAN, account_ok \in BOOLEAN :
         LET r == validate_azure_cli(Result, version_ok, account_ok)
         IN /\ SetResult(r.vr)
            /\ vpc' = after_cli_check(r.ret).vpc
            /\ v_exit' = after_cli_check(r.ret).v_exit
    /\ called' = TRUE
    /\ UNCHANGED <<sideVars, cloudVars, runVars, phaseObs, lateObs, prevObs, dry_flag, faults,
                   user_object_id, invoked, returned, valObs>>

\* `az ad signed-in-user show`: any exception leaves user_object_id None
VUserObjectId ==
    /\ vpc = "user"
    /\ \E got \in BOOLEAN : user_object_id' = got
    /\ vpc' = Validators[1]
    /\ UNCHANGED <<sideVars, vrVars, cloudVars, runVars, obsVars, v_exit, invoked, returned,
                   valObs>>

\* Step 3, one validator after the other. A get call fails when the resource
\* is absent or the provider call raises
VResourceGroup ==
    /\ vpc = "rg"
    /\ \E raises \in BOOLEAN :
         /\ CanFail(Cost(raises))
         /\ Invoke("rg", validate_resource_group(Result, cloud["rg"] /\ ~raises),
                   Cost(raises), ~cloud["rg"] \/ raises)
    /\ UNCHANGED <<readable, report>>

VKeyVault ==
    /\ vpc = "kv"
    /\ \E raises \in BOOLEAN, lost \in SUBSET (kv_expected_secrets \cap secrets) :
         /\ CanFail(Cost(raises) + Cardinality(lost))
         /\ raises => lost = {}
         /\ LET get_ok == cloud["kv"] /\ ~raises
                got == (kv_expected_secrets \cap secrets) \ lost
            IN /\ Invoke("kv", validate_key_vault(Result, get_ok, got),
                         Cost(raises) + Cardinality(lost),
                         ~get_ok \/ got # kv_expected_secrets)
               /\ readable' = IF get_ok THEN got ELSE readable
    /\ UNCHANGED report

VAIServices ==
    /\ vpc = "ai"
    /\ \E raises \in BOOLEAN, keys \in {"ok", "empty", "raise"} :
         /\ CanFail(Cost(raises) + Cost(keys # "ok"))
         /\ raises => keys = "ok"
         /\ Invoke("ai", validate_ai_services(Result, cloud["ai"] /\ ~raises, keys),
                   Cost(raises) + Cost(keys # "ok"),
                   ~cloud["ai"] \/ raises \/ keys = "raise")
    /\ UNCHANGED <<readable, report>>

VContainerRegistry ==
    /\ vpc = "acr"
    /\ \E raises \in BOOLEAN, admin_user_enabled \in BOOLEAN,
          credentials \in {"ok", "empty", "raise"} :
         /\ CanFail(Cost(raises) + Cost(credentials # "ok"))
         /\ raises => credentials = "ok"
         /\ ~admin_user_enabled => credentials = "ok"
         /\ Invoke("acr",
                   validate_container_registry(Result, cloud["acr"] /\ ~raises,
                                               admin_user_enabled, credentials),
                   Cost(raises) + Cost(credentials # "ok"),
                   ~cloud["acr"] \/ raises \/ credentials = "raise")
    /\ UNCHANGED <<readable, report>>

VStorageAccount ==
    /\ vpc = "st"
    /\ \E raises \in BOOLEAN, keys \in {"ok", "empty", "raise"} :
         /\ CanFail(Cost(raises) + Cost(keys # "ok"))
         /\ raises => keys = "ok"
         /\ Invoke("st", validate_storage_account(Result, cloud["st"] /\ ~raises, keys),
                   Cost(raises) + Cost(keys # "ok"),
                   ~cloud["st"] \/ raises \/ keys = "raise")
    /\ UNCHANGED <<readable, report>>

VLogAnalytics ==
    /\ vpc = "law"
    /\ \E raises \in BOOLEAN :
         /\ CanFail(Cost(raises))
         /\ Invoke("law", validate_log_analytics(Result, cloud["law"] /\ ~raises),
                   Cost(raises), ~cloud["law"] \/ raises)
    /\ UNCHANGED <<readable, report>>

VApplicationInsights ==
    /\ vpc = "appi"
    /\ \E raises \in BOOLEAN :
         /\ CanFail(Cost(raises))
         /\ Invoke("appi",
                   validate_application_insights(Result, cloud["appi"] /\ ~raises),
                   Cost(raises), ~cloud["appi"] \/ raises)
    /\ UNCHANGED <<readable, report>>

\* `if user_object_id:` validate_rbac_permissions. Listing at the scope of
\* an absent resource group may raise or give the inherited assignments
VRbac ==
    /\ vpc = "rbac"
    /\ \E raises \in BOOLEAN :
         /\ CanFail(IF cloud["rg"] THEN Cost(raises) ELSE 0)
         /\ Invoke("rbac",
                   validate_rbac_permissions(Result, ~raises, list_for_scope),
                   IF cloud["rg"] THEN Cost(raises) ELSE 0, raises)
    /\ UNCHANGED <<readable, report>>

\* save_validation_report: the document's summary and lists
report_document ==
    [summary |-> get_summary, checks |-> checks, issues |-> issues,
     warnings |-> warnings, successes |-> successes]

\* `sys.exit(1) if result.has_critical_issues() else sys.exit(0)`
exit_code_always_zero(critical) == "0"

exit_code(critical) == IF critical THEN "1" ELSE "0"

\* print_validation_report, save_validation_report, sys.exit
VReport ==
    /\ vpc = "report"
    /\ report' = <<report_document>>
    /\ v_exit' = exit_code(has_critical_issues)
    /\ vpc' = "end"
    /\ UNCHANGED <<sideVars, vrVars, cloudVars, runVars, obsVars, user_object_id, invoked,
                   returned, raised, readable>>

\* =========================================================================
\* A second provisioning invocation against the same subscription
\* =========================================================================
\* The same main(), started while the first one runs. Its own calls all
\* succeed; its configuration, CLI and session steps touch nothing shared
\* and are folded into its start.
OtherStart ==
    /\ pc2 = "off"
    /\ pc \notin {"idle", "end", "hung"}
    /\ pc2' = "check"
    /\ ph2' = 1
    /\ UNCHANGED <<vrVars, cloudVars, runVars, obsVars, valVars, found2, creates2,
                   role_creates2, accessVars>>

OtherExistenceCheck ==
    /\ pc2 = "check"
    /\ found2' = resource_exists(Order[ph2], FALSE)
    /\ pc2' = "create"
    /\ UNCHANGED <<vrVars, cloudVars, runVars, obsVars, valVars, ph2, creates2,
                   role_creates2, accessVars>>

\* create_or_update of a resource that exists by now succeeds
OtherCreateOrAccept ==
    /\ pc2 = "create"
    /\ LET r == Order[ph2]
           nxt == after_phase(ph2)
       IN /\ IF create_branch(found2)
             THEN /\ creates2' = creates2 \cup {r}
                  /\ cloud' = [cloud EXCEPT ![r] = TRUE]
             ELSE UNCHANGED <<creates2, cloud>>
          /\ pc2' = nxt.pc
          /\ ph2' = nxt.ph
    /\ UNCHANGED <<vrVars, secrets, assignments, runVars, obsVars, valVars, found2,
                   role_creates2, accessVars>>

\* get_log_analytics_workspace_id, and phase 9 with both blocks going through
OtherLateSteps ==
    /\ pc2 \in {"wsid", "secrets_ai"}
    /\ IF pc2 = "wsid"
       THEN pc2' = "check" /\ UNCHANGED secrets
       ELSE /\ pc2' = "role_list"
            /\ secrets' = secrets \cup Range(credential_block("ai", 0).written)
                                  \cup Range(credential_block("search", 0).written)
    /\ UNCHANGED <<vrVars, cloud, assignments, runVars, obsVars, valVars, ph2, found2,
                   creates2, role_creates2, accessVars>>

OtherRoleList ==
    /\ pc2 = "role_list"
    /\ found2' = ai_developer_assigned(list_for_scope)
    /\ pc2' = "role_create"
    /\ UNCHANGED <<vrVars, cloudVars, runVars, obsVars, valVars, ph2, creates2,
                   role_creates2, accessVars>>

\* the create names the assignment with a fresh uuid4; accepted: the
\* provider takes it or rejects it
OtherRoleAssign ==
    /\ pc2 = "role_create"
    /\ IF ~found2
       THEN \E accepted \in BOOLEAN :
              /\ role_creates2' = role_creates2 + 1
              /\ assignments' = IF accepted THEN assignments + 1 ELSE assignments
       ELSE UNCHANGED <<role_creates2, assignments>>
    /\ pc2' = "end"
    /\ UNCHANGED <<vrVars, cloud, secrets, runVars, obsVars, valVars, ph2, found2,
                   creates2, accessVars>>

\* =========================================================================
\* What the commands show of a secret value
\* =========================================================================
\* a value is the sequence of its characters; " " is whitespace
Alphabet == {"a", " "}
MaxValueLen == 9
SecretValues == UNION {[1..n -> Alphabet] : n \in 0..MaxValueLen}

\* an instrumentation key is a GUID, 8-4-4-4-12; None is <<>>
InstrumentationKeys ==
    {[i \in 1..36 |-> IF i \in {9, 14, 19, 24} THEN "-"
                      ELSE IF i <= 8 THEN x ELSE y] : x, y \in {"a", "b"}}
    \cup {<<>>}

ShownPrefix == 8
Ellipsis == <<".", ".", ".">>
Hidden == <<"[", "H", "I", "D", "D", "E", "N", "]">>

\* value[:n]
Prefix(value, n) == SubSeq(value, 1, IF Len(value) < n THEN Len(value) ELSE n)

\* len(value.strip()) > 0
NotBlank(value) == \E i \in 1..Len(value) : value[i] # " "

\* masked_value of validate_secret
masked_value_prefix_always(value) == Prefix(value, ShownPrefix) \o Ellipsis

masked_value(value) ==
    IF Len(value) > ShownPrefix THEN Prefix(value, ShownPrefix) \o Ellipsis ELSE Hidden

\* validate_secret: the status it returns and what it printed of the value;
\* validate_secret_format prints fixed texts only
validate_secret(value, get_raises) ==
    IF get_raises THEN [status |-> "access_denied", displayed |-> <<>>]
    ELSE IF value # <<>> /\ NotBlank(value)
    THEN [status |-> "success", displayed |-> masked_value(value)]
    ELSE [status |-> "empty", displayed |-> <<>>]

\* "instrumentation_key" in the details of validate_application_insights
details_instrumentation_key(key) ==
    IF key # <<>> THEN Prefix(key, ShownPrefix) \o Ellipsis ELSE <<>>

\* validate_application_insights builds the details of its Existence check
ShowInstrumentationKey ==
    /\ kpc = "off"
    /\ key_shown = <<>>
    /\ key_shown' = <<details_instrumentation_key(instrumentation_key)>>
    /\ UNCHANGED <<vrVars, cloudVars, runVars, obsVars, valVars, otherVars, kpc,
                   secret_value, instrumentation_key, k_index, shown, all_secrets_valid,
                   test_secret, delete_requested, access_result>>

\* =========================================================================
\* The Key Vault access command (validate_keyvault_access)
\* =========================================================================
\* KEYVAULT_NAME, initialize_keyvault_client, test_keyvault_connectivity
AccessConnect ==
    /\ kpc = "connect"
    /\ \E ok \in BOOLEAN :
         IF ok THEN kpc' = "secrets" /\ UNCHANGED access_result
         ELSE kpc' = "end" /\ access_result' = "False"
    /\ UNCHANGED <<vrVars, cloudVars, runVars, obsVars, valVars, otherVars,
                   secret_value, instrumentation_key, k_index, shown, key_shown,
                   all_secrets_valid, test_secret, delete_requested>>

\* one iteration of the loop of validate_expected_secrets
AccessValidateSecret ==
    /\ kpc = "secrets"
    /\ \E get_raises \in BOOLEAN :
         LET result == validate_secret(secret_value, get_raises)
         IN /\ shown' = IF result.status = "success" THEN result.displayed ELSE shown
            /\ all_secrets_valid' = (all_secrets_valid /\ result.status = "success")
    /\ IF k_index = Cardinality(access_expected_secrets)
       THEN kpc' = "write_test" /\ UNCHANGED k_index
       ELSE k_index' = k_index + 1 /\ UNCHANGED kpc
    /\ UNCHANGED <<vrVars, cloudVars, runVars, obsVars, valVars, otherVars,
                   secret_value, instrumentation_key, key_shown, test_secret,
                   delete_requested, access_result>>

\* test_write_permissions: set_secret; an exception goes to the handlers,
\* which print
AccessWriteTest ==
    /\ kpc = "write_test"
    /\ \E set_ok \in BOOLEAN :
         IF set_ok THEN test_secret' = "present" /\ kpc' = "read_back"
         ELSE UNCHANGED test_secret /\ kpc' = "summary"
    /\ UNCHANGED <<vrVars, cloudVars, runVars, obsVars, valVars, otherVars,
                   secret_value, instrumentation_key, k_index, shown, key_shown,
                   all_secrets_valid, delete_requested, access_result>>

\* test_write_permissions: get_secret of the test secret and the comparison
AccessReadBack ==
    /\ kpc = "read_back"
    /\ \E read \in {"match", "mismatch", "raises"} :
         kpc' = IF read = "raises" THEN "summary" ELSE "clean_up"
    /\ UNCHANGED <<vrVars, cloudVars, runVars, obsVars, valVars, otherVars,
                   secret_value, instrumentation_key, k_index, shown, key_shown,
                   all_secrets_valid, test_secret, delete_requested, access_result>>

\* test_write_permissions: begin_delete_secret
AccessCleanUp ==
    /\ kpc = "clean_up"
    /\ delete_requested' = TRUE
    /\ \E delete_ok \in BOOLEAN :
         test_secret' = IF delete_ok THEN "deleted" ELSE test_secret
    /\ kpc' = "summary"
    /\ UNCHANGED <<vrVars, cloudVars, runVars, obsVars, valVars, otherVars,
                   secret_value, instrumentation_key, k_index, shown, key_shown,
                   all_secrets_valid, access_result>>

\* print_validation_summary returns all_secrets_valid
AccessSummary ==
    /\ kpc = "summary"
    /\ access_result' = IF all_secrets_valid THEN "True" ELSE "False"
    /\ kpc' = "end"
    /\ UNCHANGED <<vrVars, cloudVars, runVars, obsVars, valVars, otherVars,
                   secret_value, instrumentation_key, k_index, shown, key_shown,
                   all_secrets_valid, test_secret, delete_requested>>

\* =========================================================================
\* Specifications
\* =========================================================================
\* a subscription as a first run may find it: the resources of the first n
\* phases exist (n = 0: not even the resource group)
InitialClouds ==
    {[r \in Resources |-> \E i \in 1..n : Order[i] = r] : n \in 0..Len(Order)}

Init ==
    /\ checks = <<>> /\ issues = <<>> /\ warnings = <<>> /\ successes = <<>>
    /\ calls = <<>>
    /\ cloud \in InitialClouds
    /\ secrets = {}
    /\ assignments \in {0, 1}
    /\ pc = "env" /\ ph = 1 /\ found = FALSE /\ workspace_id = FALSE
    /\ ending = "none"
    /\ outcome = NoneYet /\ creates = Zero /\ check_raised = {} /\ check_true = {}
    /\ at_start = cloud
    /\ faults = 0
    /\ stored = <<>> /\ attempted = <<>> /\ secret_failed = {}
    /\ role_outcome = "None"
    /\ role_creates = 0
    /\ summary_written = FALSE
    /\ called = FALSE /\ dry_flag = FALSE
    /\ prev_created = {} /\ prev_ending = "none" /\ prev_role = "None"
    /\ prev_clean = FALSE
    /\ vpc = "idle" /\ v_exit = "none" /\ user_object_id = FALSE
    /\ invoked = <<>> /\ returned = NotInvoked
    /\ raised = {} /\ readable = {} /\ report = <<>>
    /\ pc2 = "off" /\ ph2 = 1 /\ found2 = FALSE /\ creates2 = {}
    /\ role_creates2 = 0
    /\ kpc = "off" /\ secret_value = <<>> /\ instrumentation_key = <<>>
    /\ k_index = 1 /\ shown = <<>> /\ key_shown = <<>>
    /\ all_secrets_valid = TRUE /\ test_secret = "none"
    /\ delete_requested = FALSE /\ access_result = "none"

\* the provisioning and the validation command, run after run
Next ==
    \/ ValidateEnvironment
    \/ DryRun
    \/ AzureSession
    \/ ExistenceCheck
    \/ CreateOrAccept
    \/ GetWorkspaceId
    \/ CredentialsAI
    \/ CredentialsSearch
    \/ RoleList
    \/ RoleAssign
    \/ WriteSummary
    \/ Interrupt
    \/ StartRun
    \/ StartValidation
    \/ VEnvironment
    \/ VAzureCli
    \/ VUserObjectId
    \/ VResourceGroup
    \/ VKeyVault
    \/ VAIServices
    \/ VContainerRegistry
    \/ VStorageAccount
    \/ VLogAnalytics
    \/ VApplicationInsights
    \/ VRbac
    \/ VReport

Spec == Init /\ [][Next]_vars

\* one provisioning run, left alone: the interpreter goes on executing main()
\* as long as it has a statement to execute
RunStep ==
    \/ ValidateEnvironment
    \/ DryRun
    \/ AzureSession
    \/ ExistenceCheck
    \/ CreateOrAccept
    \/ GetWorkspaceId
    \/ CredentialsAI
    \/ CredentialsSearch
    \/ RoleList
    \/ RoleAssign
    \/ WriteSummary

SpecRun == Init /\ [][RunStep]_vars /\ WF_vars(RunStep)

\* the aggregator under an arbitrary caller
NextVR == AddCheck

SpecVR == Init /\ [][NextVR]_vars

\* two provisioning invocations at once, every call of both succeeding
NextRace ==
    \/ /\ RunStep
       /\ faults' = 0
    \/ OtherStart
    \/ OtherExistenceCheck
    \/ OtherCreateOrAccept
    \/ OtherLateSteps
    \/ OtherRoleList
    \/ OtherRoleAssign

SpecRace == Init /\ [][NextRace]_vars

\* the Key Vault access command on a vault holding some value, or the
\* details of a component with some instrumentation key
InitSecrets ==
    /\ checks = <<>> /\ issues = <<>> /\ warnings = <<>> /\ successes = <<>>
    /\ calls = <<>>
    /\ cloud = [r \in Resources |-> TRUE]
    /\ secrets = provisioned_secrets
    /\ assignments = 1
    /\ pc = "idle" /\ ph = 1 /\ found = FALSE /\ workspace_id = FALSE
    /\ ending = "none"
    /\ outcome = NoneYet /\ creates = Zero /\ check_raised = {} /\ check_true = {}
    /\ at_start = cloud
    /\ faults = 0
    /\ stored = <<>> /\ attempted = <<>> /\ secret_failed = {}
    /\ role_outcome = "None"
    /\ role_creates = 0
    /\ summary_written = FALSE
    /\ called = FALSE /\ dry_flag = FALSE
    /\ prev_created = {} /\ prev_ending = "none" /\ prev_role = "None"
    /\ prev_clean = FALSE
    /\ vpc = "idle" /\ v_exit = "none" /\ user_object_id = FALSE
    /\ invoked = <<>> /\ returned = NotInvoked
    /\ raised = {} /\ readable = {} /\ report = <<>>
    /\ pc2 = "off" /\ ph2 = 1 /\ found2 = FALSE /\ creates2 = {}
    /\ role_creates2 = 0
    /\ \/ /\ kpc = "connect"
          /\ secret_value \in SecretValues
          /\ instrumentation_key = <<>>
       \/ /\ kpc = "off"
          /\ secret_value = <<>>
          /\ instrumentation_key \in InstrumentationKeys
    /\ k_index = 1 /\ shown = <<>> /\ key_shown = <<>>
    /\ all_secrets_valid = TRUE /\ test_secret = "none"
    /\ delete_requested = FALSE /\ access_result = "none"

NextSecrets ==
    \/ ShowInstrumentationKey
    \/ AccessConnect
    \/ AccessValidateSecret
    \/ AccessWriteTest
    \/ AccessReadBack
    \/ AccessCleanUp
    \/ AccessSummary

SpecSecrets == InitSecrets /\ [][NextSecrets]_vars

\* =========================================================================
\* Properties of the aggregator (checked under SpecVR)
\* =========================================================================
InEnum(st) == st \in {"PASS", "FAIL", "WARN"}
Holds(bucket, c) == \E j \in 1..Len(bucket) : bucket[j] = c

\* C1: after any sequence of add_check calls the summary's total_checks
\* equals passed + failed + warnings.
C1_SummaryTotal ==
    get_summary.total_checks =
        get_summary.passed + get_summary.failed + get_summary.warnings

\* C2: every check recorded in checks sits in exactly one of the three
\* buckets; a status outside the enumeration is rejected or normalised, never
\* recorded in checks and left out of the buckets.
C2_ExactlyOneBucket ==
    \A i \in 1..Len(checks) :
        Cardinality({b \in {"s", "i", "w"} :
            Holds(CASE b = "s" -> successes [] b = "i" -> issues [] OTHER -> warnings,
                  checks[i])}) = 1

\* C3: has_critical_issues() is true exactly when some earlier add_check call
\* used status FAIL; PASS and WARN calls never make it true.
C3_CriticalIffFail ==
    has_critical_issues <=> \E i \in 1..Len(calls) : calls[i] = "FAIL"

C3_Witness ==
    /\ ~has_critical_issues
    /\ \E i \in 1..Len(calls) : calls[i] = "WARN"
    /\ \E i \in 1..Len(calls) : calls[i] = "PASS"

\* C4: success_rate is 100 * passed / total_checks when total_checks > 0 and
\* 0 when nothing was added; it is 100 exactly when there is a check and
\* every check is a PASS.
C4_SuccessRate ==
    LET s == get_summary
        n == s.success_rate[1]
        d == s.success_rate[2]
    IN /\ d > 0
       /\ s.total_checks > 0 => n * s.total_checks = 100 * s.passed * d
       /\ Len(calls) = 0 => n = 0
       /\ (n = 100 * d) <=>
            (Len(calls) > 0 /\ \A i \in 1..Len(calls) : calls[i] = "PASS")

C4_Witness ==
    /\ get_summary.total_checks = 3
    /\ get_summary.passed = 1
    /\ get_summary.success_rate = <<100, 3>>

\* =========================================================================
\* Properties of the provisioning run (checked under Spec)
\* =========================================================================
PastCredentials == pc \in {"role_list", "role_create", "summary"} \/ ending = "completed"

\* C5: a resource the previous run created is, in the next run, found by an
\* existence check that does not raise: the outcome is AlreadyExists, no
\* create is issued again and the phase does not fail. This for each of the
\* seven kinds.
C5_CreatedThenAlreadyExists ==
    \A k \in Kinds :
        (k \in prev_created /\ outcome[k] # "None" /\ k \notin check_raised)
            => (outcome[k] = "AlreadyExists" /\ creates[k] = 0)

C5_Witness ==
    \A k \in Kinds : k \in prev_created /\ outcome[k] = "AlreadyExists"

\* C6: a resource whose existence check returned true gets no create or
\* update call in that run; it is accepted as it is.
C6_NoCreateWhenFound ==
    \A r \in check_true :
        creates[r] = 0 /\ outcome[r] \in {"None", "AlreadyExists"}

C6_Witness ==
    \E r \in check_true : at_start[r] /\ outcome[r] = "AlreadyExists"

\* C7: an existence check whose provider call raises returns false, and the
\* run goes on to issue the create, also when the resource exists.
C7_FailOpen ==
    \A r \in check_raised :
        /\ r \notin check_true
        /\ (pc = "create" /\ Order[ph] = r) => ~found
        /\ outcome[r] # "None" => creates[r] = 1

C7_Witness ==
    \E r \in check_raised : at_start[r] /\ creates[r] = 1 /\ outcome[r] = "Created"

C9_SafeRerun ==
    (/\ prev_ending \in {"killed", "failed", "rg_return"}
     /\ ending \in {"completed", "failed", "rg_return"}
     /\ faults = 0)
        => /\ ending = "completed"
           /\ \A r \in Resources : cloud[r]
           /\ \A r \in Resources : creates[r] = IF at_start[r] THEN 0 ELSE 1

C9_Witness ==
    /\ prev_ending = "killed"
    /\ ending = "completed"
    /\ faults = 0
    /\ at_start["kv"] /\ at_start["ai"] /\ ~at_start["acr"]
    /\ creates["acr"] = 1 /\ creates["ai"] = 0

\* C10: a failure in the AI Services credential block (retrieval or store)
\* does not end the run, and the Cognitive Search secrets are written and
\* readable afterwards unless their own retrieval or store fails.
C10_PartialFailureTolerated ==
    "ai" \in secret_failed
        => /\ ending \in {"none", "killed", "completed"}
           /\ (PastCredentials /\ "search" \notin secret_failed)
                => /\ Range(SecretsOf("search")) \subseteq Range(stored)
                   /\ Range(SecretsOf("search")) \subseteq secrets

C10_Witness ==
    /\ "ai" \in secret_failed
    /\ ending = "completed"
    /\ "ai-services-key" \notin secrets
    /\ Range(SecretsOf("search")) \subseteq secrets

\* =========================================================================
\* Secret names, role assignment, dry run and phase order (checked under Spec)
\* =========================================================================
\* C11: the secret names the provisioning run writes are exactly the names
\* each validator reads (validate_key_vault, validate_expected_secrets,
\* check_key_vault_secrets), and after a run that completed with no failed
\* credential block every secret a validator expects is in the vault.
C11_SecretNamesAgree ==
    /\ Range(stored) \subseteq access_expected_secrets
    /\ Range(stored) \subseteq quick_expected_secrets
    /\ (ending = "completed" /\ secret_failed = {})
         => /\ kv_expected_secrets \subseteq secrets
            /\ access_expected_secrets \subseteq secrets
            /\ quick_expected_secrets \subseteq secrets

\* C12: when the previous run reported the role as Assigned, this run issues
\* no role-assignment create, never reports Assigned again, reports
\* AlreadyAssigned once its listing went through, and exactly one matching
\* assignment exists. Only an assignment of the AI Developer role to the
\* current user counts as a match: AlreadyAssigned is never reported on
\* the strength of another principal's or another role's assignment.
C12_RoleIdempotent ==
    /\ role_outcome = "AlreadyAssigned" => assignments >= 1
    /\ prev_role = "Assigned"
        => /\ role_creates = 0
           /\ assignments = 1
           /\ role_outcome \in {"None", "AlreadyAssigned", "Failed"}
           /\ (role_outcome = "Failed") => faults > 0
           /\ \E a \in list_for_scope :
                /\ a.principal_id = current_user_object_id
                /\ endswith(a.role_definition_id, ai_developer_role_id)
           /\ (pc \in {"summary", "end"} /\ ending \in {"none", "completed"}
                 /\ faults = 0)
                => role_outcome = "AlreadyAssigned"

C12_Witness ==
    /\ prev_role = "Assigned"
    /\ role_outcome = "AlreadyAssigned"
    /\ ending = "completed"
    /\ role_creates = 0
    /\ assignments = 1

\* C15: a run that took the dry-run branch has ended with exit status 0
\* having attempted no CLI or provider call: nothing was created, stored or
\* assigned and the subscription is as the run found it.
C15_DryRunTouchesNothing ==
    dry_flag
        => /\ pc = "end" /\ ending = "dry_run"
           /\ ExitStatus(ending) = "0"
           /\ ~called
           /\ cloud = at_start
           /\ creates = Zero /\ outcome = NoneYet
           /\ check_raised = {} /\ check_true = {}
           /\ stored = <<>> /\ role_creates = 0 /\ role_outcome = "None"
           /\ ~summary_written

C15_Witness ==
    /\ dry_flag
    /\ pc = "end"
    /\ ending = "dry_run"
    /\ ~called
    /\ \E r \in Resources : ~cloud[r]

PhaseDone(r) == outcome[r] \in {"Created", "AlreadyExists"}
StoreOrder == SecretsOf("ai") \o SecretsOf("search")

\* C20: the phases run in the fixed order: a phase has an outcome only when
\* every earlier phase went through; Application Insights is created only
\* with the workspace id retrieved in this run; a secret is written only
\* after its source's phase and the Key Vault phase went through, after all
\* eight phases, in the order AI key, AI endpoint, Search key, Search
\* endpoint; the role assignment comes after the credential blocks.
C20_PhaseOrder ==
    /\ \A i \in 1..Len(Order) :
         outcome[Order[i]] # "None"
            => /\ i <= ph
               /\ \A k \in 1..(i - 1) : PhaseDone(Order[k])
    /\ creates["appi"] > 0 => (workspace_id /\ PhaseDone("law"))
    /\ \A src \in {"ai", "search"} :
         (Range(SecretsOf(src)) \cap Range(stored) # {})
            => /\ PhaseDone(src) /\ PhaseDone("kv")
               /\ \A r \in Resources : PhaseDone(r)
    /\ \A a, b \in 1..Len(stored) :
         a < b => \E x, y \in 1..Len(StoreOrder) :
                     x < y /\ StoreOrder[x] = stored[a] /\ StoreOrder[y] = stored[b]
    /\ (role_outcome # "None" \/ role_creates > 0)
         => /\ \A r \in Resources : PhaseDone(r)
            /\ pc \in {"summary", "end"}

C20_Witness ==
    /\ creates["appi"] = 1
    /\ workspace_id
    /\ Len(stored) = 4
    /\ role_outcome = "Assigned"
    /\ ending = "completed"

\* =========================================================================
\* Properties of the validation run and of both commands' preflight
\* =========================================================================
Recorded(v, name) ==
    {i \in 1..Len(checks) : checks[i].category = Category(v) /\ checks[i].name = name}
RecordedWith(v, name, status) ==
    {i \in Recorded(v, name) : checks[i].status = status}
Invoked == Range(invoked)
\* the validation run stopped at its environment check, at its CLI check
EnvFailed ==
    /\ vpc # "idle"
    /\ \E i \in 1..Len(checks) :
         checks[i].category = "Environment" /\ checks[i].status = "FAIL"
CliFailed ==
    /\ vpc # "idle"
    /\ \E i \in 1..Len(checks) :
         checks[i].category = "Azure CLI" /\ checks[i].status = "FAIL"
\* the provisioning run has issued no provider call and changed nothing
NothingProvisioned ==
    /\ cloud = at_start
    /\ creates = Zero /\ outcome = NoneYet
    /\ check_raised = {} /\ check_true = {}
    /\ stored = <<>> /\ role_creates = 0 /\ role_outcome = "None"

C14_CliFailureExitsNonZero ==
    /\ ending = "cli_return"
         => /\ pc = "end"
            /\ ExitStatus(ending) \notin {"0", "none"}
            /\ NothingProvisioned
    /\ CliFailed
         => /\ vpc = "end"
            /\ v_exit \notin {"0", "none"}
            /\ invoked = <<>>

\* C16: the validators are invoked in the order of Validators; every one
\* invoked has returned; one in whose invocation a provider call raised has
\* recorded a FAIL or WARN check; and a run that passed the CLI check
\* invokes all of them whatever the earlier ones returned (the RBAC
\* validator when the user's object id was obtained).
C16_ValidatorsNeverRaise ==
    /\ \A i \in 1..Len(invoked) : invoked[i] = Validators[i]
    /\ \A v \in Invoked : returned[v] # "none"
    /\ \A v \in raised :
         /\ v \in Invoked
         /\ \E i \in 1..Len(checks) :
              /\ checks[i].category = Category(v)
              /\ checks[i].status \in {"FAIL", "WARN"}
    /\ (vpc = "report" \/ (vpc = "end" /\ ~EnvFailed /\ ~CliFailed))
         => Invoked = IF user_object_id THEN Range(Validators)
                      ELSE Range(Validators) \ {"rbac"}

C16_Witness ==
    /\ vpc = "end"
    /\ Len(invoked) = Len(Validators)
    /\ returned["kv"] = "False"
    /\ {"kv", "ai", "acr", "st", "law", "appi"} \subseteq raised
    /\ returned["rbac"] = "True"

\* C17: every validator invoked has recorded at least one check named
\* "Existence" under its category.
C17_ExistenceAlwaysRecorded ==
    \A v \in Invoked : Recorded(v, "Existence") # {}

\* C18: every validator invoked returned true if and only if it recorded an
\* "Existence" check with status PASS.
C18_ReturnIsExistencePass ==
    \A v \in Invoked :
       returned[v] = "True" <=> RecordedWith(v, "Existence", "PASS") # {}

\* C19: when validate_key_vault found the vault, it recorded exactly one
\* "Secret Access" check: PASS iff every expected secret was readable, WARN
\* iff some but not all were, FAIL iff none was; the WARN check's details
\* list under missing_secrets exactly the names that were not readable.
C19_SecretAccess ==
    returned["kv"] = "True"
        => /\ Cardinality(Recorded("kv", "Secret Access")) = 1
           /\ \A i \in Recorded("kv", "Secret Access") :
                /\ checks[i].status = "PASS" <=> readable = kv_expected_secrets
                /\ checks[i].status = "WARN"
                      <=> (readable # {} /\ readable # kv_expected_secrets)
                /\ checks[i].status = "FAIL" <=> readable = {}
                /\ checks[i].status = "WARN"
                      => \E d \in checks[i].details :
                            /\ d[1] = "missing_secrets"
                            /\ Range(d[2]) = kv_expected_secrets \ readable
                            /\ Len(d[2]) = Cardinality(kv_expected_secrets \ readable)

C19_Witness ==
    /\ returned["kv"] = "True"
    /\ readable = {"ai-services-key"}
    /\ \E i \in Recorded("kv", "Secret Access") :
         /\ checks[i].status = "WARN"
         /\ <<"missing_secrets", <<"ai-services-endpoint">>>> \in checks[i].details

\* =========================================================================
\* End to end, report, exit status, summary (checked under Spec)
\* =========================================================================
AllPass == \A i \in 1..Len(checks) : checks[i].status = "PASS"
SomeFail == \E i \in 1..Len(checks) : checks[i].status = "FAIL"

\* C23: a provisioning run that found an empty subscription and in which no
\* call failed has, once completed, issued exactly one create for each of
\* the 7 resources, each Created; and a validation run that follows such a
\* run, passes its environment and CLI checks and sees no call fail ends
\* with at least 7 checks, all PASS, success_rate 100 and no issue.
C23_EndToEnd ==
    /\ Cardinality(Kinds) = 7
    /\ (ending = "completed" /\ faults = 0 /\ \A r \in Resources : ~at_start[r])
         => \A r \in Kinds : creates[r] = 1 /\ outcome[r] = "Created" /\ cloud[r]
    /\ (prev_clean /\ vpc = "end" /\ faults = 0 /\ ~EnvFailed /\ ~CliFailed)
         => /\ Len(checks) >= 7
            /\ AllPass
            /\ get_summary.success_rate = <<100, 1>>
            /\ get_summary.total_checks = get_summary.passed
            /\ issues = <<>>
            /\ v_exit = "0"

C23_Witness ==
    /\ prev_clean
    /\ vpc = "end"
    /\ faults = 0
    /\ returned["rbac"] = "True"
    /\ Len(checks) >= 7
    /\ AllPass

\* C24: when a validation run has ended, whatever ended it, the report file
\* has been written and holds the summary and the four lists as they are.
C24_ReportAlwaysWritten ==
    vpc = "end" => (Len(report) = 1 /\ report[1] = report_document)

\* C25: a validation run that has ended has exit status 1 if it recorded at
\* least one FAIL check, and 0 otherwise.
C25_ExitStatus ==
    vpc = "end"
        => /\ v_exit \in {"0", "1"}
           /\ v_exit = "1" <=> SomeFail
           /\ v_exit = "0" <=> ~SomeFail

C25_Witness ==
    /\ vpc = "end"
    /\ v_exit = "0"
    /\ warnings # <<>>
    /\ ~SomeFail

C29_KeyBeforeEndpoint ==
    /\ Range(stored) \subseteq Range(attempted)
    /\ \A src \in {"ai", "search"} :
         LET key == SecretsOf(src)[1]
             endpoint == SecretsOf(src)[2]
         IN /\ endpoint \in Range(stored)
                 => \E a, b \in 1..Len(stored) :
                       a < b /\ stored[a] = key /\ stored[b] = endpoint
            /\ endpoint \in Range(attempted) => key \in Range(stored)
            /\ (src \in secret_failed /\ key \notin Range(stored))
                 => endpoint \notin Range(attempted) \cup Range(stored)

C29_Witness ==
    /\ "ai" \in secret_failed
    /\ "ai-services-key" \in Range(attempted)
    /\ "ai-services-key" \notin Range(stored)
    /\ "ai-services-endpoint" \notin Range(attempted)
    /\ Range(SecretsOf("search")) \subseteq Range(stored)

\* =========================================================================
\* Termination of a provisioning run (checked under SpecRun)
\* =========================================================================
\* C21: every provisioning run eventually terminates, completing or failing,
\* even when an external operation never completes.
C21_EveryRunTerminates == <>(pc = "end")

\* =========================================================================
\* Concurrent invocations (checked under SpecRace)
\* =========================================================================
\* C22: nothing locks a phase: an invocation whose existence check said
\* "absent" issues its create whatever the subscription holds by the time
\* it does, and one whose listing showed no matching assignment issues its
\* role_assignments.create whatever is assigned by then; so two invocations
\* can both create the same resource and both assign the role.
C22_StaleCheckStillCreates ==
    [][/\ (pc = "create" /\ ~found /\ pc' # pc)
            => creates'[Order[ph]] = creates[Order[ph]] + 1
       /\ (pc2 = "create" /\ ~found2 /\ pc2' # pc2)
            => Order[ph2] \in creates2'
       /\ (pc = "role_create" /\ ~found /\ pc' # pc)
            => role_creates' = role_creates + 1
       /\ (pc2 = "role_create" /\ ~found2 /\ pc2' # pc2)
            => role_creates2' = role_creates2 + 1]_vars

\* both invocations saw the Key Vault absent and both created it; both saw no
\* assignment and the scope now holds two
C22_Witness ==
    /\ ~at_start["kv"]
    /\ "kv" \notin check_true
    /\ creates["kv"] = 1
    /\ "kv" \in creates2
    /\ role_creates = 1
    /\ role_creates2 = 1
    /\ Cardinality({a \in list_for_scope :
                      /\ a.principal_id = current_user_object_id
                      /\ endswith(a.role_definition_id, ai_developer_role_id)}) = 2

\* =========================================================================
\* Secret values shown, and the write test (checked under SpecSecrets)
\* =========================================================================
\* text holds value as a run of consecutive characters
Contains(text, value) ==
    \E i \in 1..(Len(text) - Len(value) + 1) :
       SubSeq(text, i, i + Len(value) - 1) = value

\* C26: what validate_secret displays of a value is "[HIDDEN]" when the
\* value has 8 characters or fewer, and its first 8 characters followed by
\* "..." otherwise, and never holds the whole value; the report's details
\* hold the first 8 characters of the instrumentation key followed by
\* "...", and never the whole key.
C26_NoSecretInFull ==
    /\ shown # <<>>
         => /\ Len(secret_value) <= 8 => shown = Hidden
            /\ Len(secret_value) > 8
                 => shown = SubSeq(secret_value, 1, 8) \o Ellipsis
            /\ ~Contains(shown, secret_value)
    /\ (key_shown # <<>> /\ instrumentation_key # <<>>)
         => /\ key_shown[1] = SubSeq(instrumentation_key, 1, 8) \o Ellipsis
            /\ ~Contains(key_shown[1], instrumentation_key)

C26_Witness ==
    /\ kpc = "end"
    /\ Len(secret_value) = 8
    /\ shown = Hidden
    /\ access_result = "True"

\* C30: once test_write_permissions is over, a test secret it created has
\* had its deletion requested, and the command's result is the flag of
\* validate_expected_secrets.
C30_NoTestSecretLeftBehind ==
    /\ (kpc \in {"summary", "end"} /\ test_secret # "none") => delete_requested
    /\ (kpc = "end" /\ test_secret # "none")
         => access_result = IF all_secrets_valid THEN "True" ELSE "False"


====
